---------------------------- MODULE Spec2Model ----------------------------
(***************************************************************************)
(* rateyourbike-server: the review service (src/index.js, with its         *)
(* Cloudinary variant src/unnamed/part_000 and its commented twin          *)
(* src/unnamed/part_001) as a state machine.                               *)
(*                                                                         *)
(* State: the Bike collection, the image store, the socket.io clients and  *)
(* what they were sent, every POST /api/bikes/add request with the point   *)
(* its handler has reached, and the response of the last GET.              *)
(*                                                                         *)
(* Request values are JavaScript values: a multipart text field is either  *)
(* undefined or a string, and a string is a sequence of one-character      *)
(* strings, so that Number(), the truthiness tests, replace(/\s+/g, '')    *)
(* and $regex are computed the way the code computes them.                 *)
(***************************************************************************)
EXTENDS Integers, Sequences, FiniteSets, TLC

(***************************************************************************)
(* Bounds of the model.                                                    *)
(***************************************************************************)
\* POST /api/bikes/add requests received in one behaviour
MaxPosts == 2
\* fields in which a request differs from the scenario submission of the spec
MaxEdits == 1
\* socket.io clients that may connect
MaxClients == 1
\* readings of Date.now() that differ
MaxClock == 1

(***************************************************************************)
(* Program constants.                                                      *)
(***************************************************************************)
\* upload.array('bikeImages', 5)
MaxCount == 5
\* files.length < 3
MinImages == 3
\* limits.fileSize: 5 * 1024 * 1024
FileSizeLimit == 5 * 1024 * 1024
\* rating: min: 1, max: 5, and rating < 1 || rating > 5
RatingMin == 1
RatingMax == 5
\* .limit(10)
SearchLimit == 10
\* the length of an ObjectId in hexadecimal digits
ObjectIdHexLen == 24

(***************************************************************************)
(* JavaScript values.                                                      *)
(***************************************************************************)
Undefined == [t |-> "undefined"]
Str(s) == [t |-> "string", s |-> s]
NaN == [nan |-> TRUE, n |-> 0]
Num(n) == [nan |-> FALSE, n |-> n]

Digits == <<"0", "1", "2", "3", "4", "5", "6", "7", "8", "9">>
UpperCase == <<"A", "B", "C", "D", "E", "F", "G", "H", "I", "J", "K", "L", "M",
               "N", "O", "P", "Q", "R", "S", "T", "U", "V", "W", "X", "Y", "Z">>
LowerCase == <<"a", "b", "c", "d", "e", "f", "g", "h", "i", "j", "k", "l", "m",
               "n", "o", "p", "q", "r", "s", "t", "u", "v", "w", "x", "y", "z">>
WhiteSpace == {" "}

IsDigit(c) == \E i \in 1..Len(Digits) : Digits[i] = c
DigitValue(c) == (CHOOSE i \in 1..Len(Digits) : Digits[i] = c) - 1

\* !v for a multipart field: undefined and the empty string are falsy
Falsy(v) == v.t = "undefined" \/ v.s = <<>>

RECURSIVE TrimLeft(_)
TrimLeft(s) ==
  IF s # <<>> /\ Head(s) \in WhiteSpace THEN TrimLeft(Tail(s)) ELSE s

RECURSIVE TrimRight(_)
TrimRight(s) ==
  IF s # <<>> /\ s[Len(s)] \in WhiteSpace
  THEN TrimRight(SubSeq(s, 1, Len(s) - 1)) ELSE s

RECURSIVE DecimalValue(_)
DecimalValue(s) ==
  IF s = <<>> THEN 0
  ELSE 10 * DecimalValue(SubSeq(s, 1, Len(s) - 1)) + DigitValue(s[Len(s)])

\* ToNumber of a string: white space trimmed, "" is 0, an optional sign and
\* decimal digits; anything else the model draws is NaN
StringToNumber(s) ==
  LET u == TrimRight(TrimLeft(s))
      neg == u # <<>> /\ Head(u) = "-"
      d == IF u # <<>> /\ Head(u) \in {"-", "+"} THEN Tail(u) ELSE u
  IN  IF u = <<>> THEN Num(0)
      ELSE IF d # <<>> /\ \A i \in 1..Len(d) : IsDigit(d[i])
           THEN Num(IF neg THEN 0 - DecimalValue(d) ELSE DecimalValue(d))
           ELSE NaN

\* Number(v)
ToNumber(v) == IF v.t = "undefined" THEN NaN ELSE StringToNumber(v.s)

\* v < k and v > k for a field v and a number k: false when v is NaN
LessThan(v, k) == LET x == ToNumber(v) IN ~x.nan /\ x.n < k
GreaterThan(v, k) == LET x == ToNumber(v) IN ~x.nan /\ x.n > k

\* s.replace(/\s+/g, '')
RECURSIVE StripSpace(_)
StripSpace(s) ==
  IF s = <<>> THEN <<>>
  ELSE IF Head(s) \in WhiteSpace THEN StripSpace(Tail(s))
       ELSE <<Head(s)>> \o StripSpace(Tail(s))

\* `${bikeName.replace(/\s+/g, '')}-${modelName.replace(/\s+/g, '')}`
FolderName(bikeName, modelName) ==
  StripSpace(bikeName.s) \o <<"-">> \o StripSpace(modelName.s)


(***************************************************************************)
(* The requests the model draws: the scenario submission of the spec       *)
(* (rider "Asha", "Royal Enfield" "Himalayan", rating 5, three JPEG        *)
(* images) and every request that differs from it in at most MaxEdits      *)
(* fields.  Text parts precede the file parts, so that req.body holds      *)
(* them when multer calls the storage callbacks.                           *)
(***************************************************************************)
Asha == <<"A", "s", "h", "a">>
RoyalEnfield == <<"R", "o", "y", "a", "l", " ", "E", "n", "f", "i", "e", "l", "d">>
Yamaha == <<"Y", "a", "m", "a", "h", "a">>
Himalayan == <<"H", "i", "m", "a", "l", "a", "y", "a", "n">>
Reliable == <<"R", "e", "l", "i", "a", "b", "l", "e">>
DefinitelyYes == <<"D", "e", "f", "i", "n", "i", "t", "e", "l", "y", " ", "Y", "e", "s">>
Yes == <<"Y", "e", "s">>
No == <<"N", "o">>
Maybe == <<"M", "a", "y", "b", "e">>

\* an uploaded file: its declared content type, its size in bytes, and whether
\* its bytes are an image sharp (or Cloudinary) can decode
Jpeg == [mimetype |-> "image/jpeg", size |-> 1024, decodable |-> TRUE]
Png == [mimetype |-> "image/png", size |-> FileSizeLimit, decodable |-> TRUE]
Pdf == [mimetype |-> "application/pdf", size |-> 1024, decodable |-> FALSE]
TooLarge == [mimetype |-> "image/jpeg", size |-> FileSizeLimit + 1, decodable |-> TRUE]
Corrupt == [mimetype |-> "image/gif", size |-> 1024, decodable |-> FALSE]

Files(list) == [t |-> "files", list |-> list]
Repeat(f, n) == [i \in 1..n |-> f]
OneOdd(f, p) == [i \in 1..MinImages |-> IF i = p THEN f ELSE Jpeg]

TextFields == {"riderName", "bikeName", "modelName", "purchaseYear", "totalKM",
               "bikeCost", "costPerService", "review", "rating", "worthTheCost"}
Parts == TextFields \cup {"bikeImages"}

Scenario ==
  [riderName |-> Str(Asha), bikeName |-> Str(RoyalEnfield),
   modelName |-> Str(Himalayan), purchaseYear |-> Str(<<"2", "0", "2", "0">>),
   totalKM |-> Str(<<"1", "5", "0", "0", "0">>),
   bikeCost |-> Str(<<"2", "5", "0", "0", "0", "0">>),
   costPerService |-> Str(<<"3", "0", "0", "0">>), review |-> Str(Reliable),
   rating |-> Str(<<"5">>), worthTheCost |-> Str(DefinitelyYes),
   bikeImages |-> Files(Repeat(Jpeg, MinImages))]

\* the other values a part of the request takes
Alternatives(part) ==
  CASE part = "riderName" -> {Undefined, Str(<<>>)}
    [] part = "bikeName" -> {Undefined, Str(<<>>), Str(Yamaha)}
    [] part = "modelName" -> {Undefined, Str(<<>>)}
    [] part = "purchaseYear" -> {Undefined, Str(<<>>)}
    [] part = "totalKM" -> {Undefined}
    [] part = "bikeCost" -> {Undefined, Str(<<>>)}
    [] part = "costPerService" -> {Undefined}
    [] part = "review" -> {Undefined, Str(<<>>)}
    [] part = "rating" -> {Undefined, Str(<<>>), Str(<<"x">>), Str(<<"-", "1">>),
                           Str(<<"0">>), Str(<<"1">>), Str(<<"6">>)}
    [] part = "worthTheCost" -> {Undefined, Str(Maybe)}
    [] part = "bikeImages" ->
         {Files(Repeat(Jpeg, n)) : n \in (0..(MaxCount + 1)) \ {MinImages}}
         \cup {Files(OneOdd(f, p)) : f \in {Pdf, TooLarge, Corrupt}, p \in 1..MinImages}
         \cup {Files(OneOdd(Png, 1))}

Edit(E, c) == [p \in Parts |-> IF p \in E THEN c[p] ELSE Scenario[p]]

Requests ==
  UNION { {Edit(E, c) :
             c \in {c \in [E -> UNION {Alternatives(p) : p \in E}] :
                      \A p \in E : c[p] \in Alternatives(p)}} :
          E \in {E \in SUBSET Parts : Cardinality(E) <= MaxEdits} }

(***************************************************************************)
(* The upload middleware: upload.array('bikeImages', 5) with the storage,  *)
(* limits and fileFilter the program configures.                           *)
(***************************************************************************)
AllowedTypes == {"image/jpeg", "image/png", "image/gif"}

\* fileFilter: the declared content type alone decides
FileFilterRejects(file) == file.mimetype \notin AllowedTypes

\* storage.destination (diskStorage) and params (CloudinaryStorage)
DestinationFails(body) == Falsy(body.bikeName) \/ Falsy(body.modelName)

\* limits.fileSize
TooBig(file) == file.size > FileSizeLimit

\* FileError without the count of upload.array
FileErrorAnyCount(variant_, body, list, i) ==
  IF FileFilterRejects(list[i]) THEN "Invalid file type"
  ELSE IF DestinationFails(body) THEN "Bike name and model are required"
  ELSE IF TooBig(list[i]) THEN "LIMIT_FILE_SIZE"
  ELSE IF variant_ = "remote" /\ ~list[i].decodable THEN "Invalid image file"
  ELSE ""

\* what stops multer at the i-th file, "" if nothing does: the count of
\* upload.array, then fileFilter, then the storage engine, then the size limit
\* met while the file streams in
FileError(variant_, body, list, i) ==
  IF i > MaxCount THEN "LIMIT_UNEXPECTED_FILE"
  ELSE IF FileFilterRejects(list[i]) THEN "Invalid file type"
  ELSE IF DestinationFails(body) THEN "Bike name and model are required"
  ELSE IF TooBig(list[i]) THEN "LIMIT_FILE_SIZE"
  ELSE IF variant_ = "remote" /\ ~list[i].decodable THEN "Invalid image file"
  ELSE ""

\* the error multer hands to next(err): that of the first file it stops at
UploadError(variant_, req) ==
  LET list == req.bikeImages.list
      bad == {i \in 1..Len(list) : FileError(variant_, req, list, i) # ""}
  IN  IF bad = {} THEN ""
      ELSE FileError(variant_, req, list, CHOOSE i \in bad : \A j \in bad : i <= j)

(***************************************************************************)
(* The image store.  A stored file is named by the request and the         *)
(* position of the file in it; Date.now() + '-' + Math.round(Math.random() *)
(* * 1E9) is taken to be unique.                                           *)
(***************************************************************************)
Original(folder, k, i) ==
  [root |-> "uploads", folder |-> folder, prefix |-> "", post |-> k, idx |-> i]
\* 'compressed-' + file.filename under the same folder
Compressed(folder, k, i) ==
  [root |-> "uploads", folder |-> folder, prefix |-> "compressed-", post |-> k, idx |-> i]
\* folder: `bike-reviews/${folderName}`
Remote(folder, k, i) ==
  [root |-> "bike-reviews", folder |-> folder, prefix |-> "", post |-> k, idx |-> i]

\* what multer leaves in the store for an accepted upload
Uploaded(variant_, req, k) ==
  LET folder == FolderName(req.bikeName, req.modelName)
  IN  {IF variant_ = "local" THEN Original(folder, k, i) ELSE Remote(folder, k, i) :
         i \in 1..Len(req.bikeImages.list)}

\* `/uploads/${folderName}/${outputFilename}` of every file, in the order of files
ProcessedImagePaths(req, k) ==
  [i \in 1..Len(req.bikeImages.list) |->
     Compressed(FolderName(req.bikeName, req.modelName), k, i)]

\* files.map(file => file.path)
ImageUrls(req, k) ==
  [i \in 1..Len(req.bikeImages.list) |->
     Remote(FolderName(req.bikeName, req.modelName), k, i)]

(***************************************************************************)
(* The handler of POST /api/bikes/add and the Bike schema.                 *)
(***************************************************************************)
\* rating < 1 alone
RatingBelowMin(rating) == LessThan(rating, RatingMin)

\* !riderName || !bikeName || !modelName || !review || !rating
\*   || rating < 1 || rating > 5
RatingOutOfRange(rating) ==
  LessThan(rating, RatingMin) \/ GreaterThan(rating, RatingMax)

RequiredMissing(req) ==
  \/ Falsy(req.riderName) \/ Falsy(req.bikeName) \/ Falsy(req.modelName)
  \/ Falsy(req.review) \/ Falsy(req.rating)
  \/ RatingOutOfRange(req.rating)

\* files.length < 2
TooFewImagesOffByOne(req) == Len(req.bikeImages.list) < MinImages - 1

\* !files || files.length < 3
TooFewImages(req) == Len(req.bikeImages.list) < MinImages

\* a 24-digit hexadecimal ObjectId, the k-th the driver generates
ObjectId(k) == [i \in 1..ObjectIdHexLen |-> IF i = ObjectIdHexLen THEN Digits[k + 1] ELSE "0"]

\* new Bike({...}): numbers coerced with Number(), worthTheCost defaulted,
\* _id and createdAt (default: Date.now) assigned on construction
NewBike(req, k, images, t) ==
  [id |-> ObjectId(k),
   riderName |-> req.riderName,
   bikeName |-> req.bikeName,
   modelName |-> req.modelName,
   purchaseYear |-> ToNumber(req.purchaseYear),
   totalKM |-> ToNumber(req.totalKM),
   bikeCost |-> ToNumber(req.bikeCost),
   costPerService |-> ToNumber(req.costPerService),
   review |-> req.review,
   rating |-> ToNumber(req.rating),
   worthTheCost |-> IF req.worthTheCost.t = "undefined" THEN Str(Yes) ELSE req.worthTheCost,
   images |-> images,
   createdAt |-> t]

WorthTheCostEnum == {Str(Yes), Str(DefinitelyYes), Str(No)}

\* the validation save() runs: required paths, numbers that cast, min and max
\* of rating, the enum of worthTheCost
SchemaValid(doc) ==
  /\ ~Falsy(doc.riderName) /\ ~Falsy(doc.bikeName) /\ ~Falsy(doc.modelName)
  /\ ~Falsy(doc.review)
  /\ ~doc.purchaseYear.nan /\ ~doc.bikeCost.nan
  /\ ~doc.totalKM.nan /\ ~doc.costPerService.nan
  /\ ~doc.rating.nan /\ doc.rating.n >= RatingMin /\ doc.rating.n <= RatingMax
  /\ doc.worthTheCost \in WorthTheCostEnum

(***************************************************************************)
(* State.                                                                  *)
(***************************************************************************)
VARIABLES
  variant,    \* "local": src/index.js; "remote": the Cloudinary variant
  repo,       \* the Bike collection, in insertion order
  store,      \* the files of the image store
  clients,    \* the socket.io clients connected
  delivered,  \* the events io.emit sent, each with the clients it reached
  posts,      \* the POST /api/bikes/add requests and how far each has run
  now,        \* the last reading of Date.now()
  resp        \* the response to the last GET request

vars == <<variant, repo, store, clients, delivered, posts, now, resp>>

Clients == 1..MaxClients
NoResponse == [op |-> "none", arg |-> Undefined, status |-> 0, message |-> "",
               body |-> <<>>, read |-> FALSE, seen |-> 0]

Init ==
  /\ variant \in {"local", "remote"}
  /\ repo = <<>>
  /\ store = {}
  /\ clients = {}
  /\ delivered = <<>>
  /\ posts = <<>>
  /\ now = 0
  /\ resp = NoResponse

\* a request the handler has answered
Answered(req, stat, json, message, err, body, trace) ==
  [req |-> req, stage |-> "done", pending |-> {}, doc |-> <<>>, status |-> stat,
   json |-> json, message |-> message, err |-> err, body |-> body, trace |-> trace]

\* a request whose handler waits on Promise.all or on save()
Waiting(req, stage, pending, doc, trace) ==
  [req |-> req, stage |-> stage, pending |-> pending, doc |-> doc, status |-> 0,
   json |-> FALSE, message |-> "", err |-> "", body |-> <<>>, trace |-> trace]

\* the readings Date.now() may give next
Readings == {t \in {now, now + 1} : t <= MaxClock}

(***************************************************************************)
(* POST /api/bikes/add.                                                    *)
(***************************************************************************)
\* The request arrives: multer takes the files, and the handler runs to its
\* first await.  An error of multer goes to next(err): no error middleware is
\* registered, so Express answers 500 itself, without a JSON body, and multer
\* removes the files it had stored.
Receive(req) ==
  /\ Len(posts) < MaxPosts
  /\ LET k == Len(posts) + 1
         err == UploadError(variant, req)
         n == Len(req.bikeImages.list)
     IN  IF err # ""
         THEN /\ posts' = Append(posts, Answered(req, 500, FALSE, "", err, <<>>, <<>>))
              /\ UNCHANGED <<store, now>>
         ELSE /\ store' = store \cup Uploaded(variant, req, k)
              /\ IF RequiredMissing(req)
                 THEN /\ posts' = Append(posts,
                           Answered(req, 400, TRUE, "All required fields must be provided",
                                    "", <<>>, <<"upload">>))
                      /\ UNCHANGED now
                 ELSE IF TooFewImages(req)
                 THEN /\ posts' = Append(posts,
                           Answered(req, 400, TRUE, "At least 3 images are required",
                                    "", <<>>, <<"upload">>))
                      /\ UNCHANGED now
                 ELSE IF variant = "local"
                 THEN /\ posts' = Append(posts,
                           Waiting(req, "normalizing", 1..n, <<>>, <<"upload">>))
                      /\ UNCHANGED now
                 ELSE \E t \in Readings :
                      /\ posts' = Append(posts,
                           Waiting(req, "saving", {},
                                   <<NewBike(req, k, ImageUrls(req, k), t)>>, <<"upload">>))
                      /\ now' = t
  /\ UNCHANGED <<variant, repo, clients, delivered, resp>>

\* a sharp whose rejection the handler never sees
SharpNeverRejects(file) == TRUE

\* await sharp(file.path).resize(...).jpeg(...).toFile(outputPath) resolves
\* for a file sharp can decode and rejects for one it cannot
SharpResolves(file) == file.decodable

\* One sharp(file.path)...toFile(outputPath) of the Promise.all settles.  A file
\* sharp decodes gets its compressed copy and loses its original; one it cannot
\* decode rejects the Promise.all, and the catch answers 500.  When the last
\* one is done the handler goes on to new Bike(...) and calls save().  The
\* operations still running when one has failed run on.
Normalize(k, i) ==
  /\ k \in 1..Len(posts)
  /\ i \in posts[k].pending
  /\ LET p == posts[k]
         req == p.req
         folder == FolderName(req.bikeName, req.modelName)
         rest == p.pending \ {i}
     IN  IF SharpResolves(req.bikeImages.list[i])
         THEN /\ store' = (store \ {Original(folder, k, i)}) \cup {Compressed(folder, k, i)}
              /\ IF p.stage = "normalizing" /\ rest = {}
                 THEN \E t \in Readings :
                      /\ posts' = [posts EXCEPT ![k] =
                           Waiting(req, "saving", {},
                                   <<NewBike(req, k, ProcessedImagePaths(req, k), t)>>,
                                   Append(p.trace, "normalized"))]
                      /\ now' = t
                 ELSE /\ posts' = [posts EXCEPT ![k].pending = rest]
                      /\ UNCHANGED now
         ELSE /\ UNCHANGED <<store, now>>
              /\ IF p.stage = "normalizing"
                 THEN posts' = [posts EXCEPT ![k] =
                        [Answered(req, 500, TRUE, "Server error", "sharp", <<>>, p.trace)
                           EXCEPT !.pending = rest]]
                 ELSE posts' = [posts EXCEPT ![k].pending = rest]
  /\ UNCHANGED <<variant, repo, clients, delivered, resp>>

\* a save() that replaces the Reviews of the same bike and model
SaveDoneUpsert(k) ==
  /\ k \in 1..Len(posts)
  /\ posts[k].stage = "saving"
  /\ LET p == posts[k]
         doc == p.doc[1]
         others == SelectSeq(repo, LAMBDA d : d.bikeName # doc.bikeName
                                              \/ d.modelName # doc.modelName)
     IN  IF SchemaValid(doc)
         THEN /\ repo' = Append(others, doc)
              /\ posts' = [posts EXCEPT ![k].stage = "saved",
                                        ![k].trace = Append(p.trace, "insert")]
         ELSE /\ posts' = [posts EXCEPT ![k] =
                   Answered(p.req, 500, TRUE, "Server error", "ValidationError",
                            <<>>, p.trace)]
              /\ UNCHANGED repo
  /\ UNCHANGED <<variant, store, clients, delivered, now, resp>>

\* save() settles: the document is validated and, if valid, inserted; a
\* validation error is thrown into the catch, which answers 500
SaveDone(k) ==
  /\ k \in 1..Len(posts)
  /\ posts[k].stage = "saving"
  /\ LET p == posts[k]
         doc == p.doc[1]
     IN  IF SchemaValid(doc)
         THEN /\ repo' = Append(repo, doc)
              /\ posts' = [posts EXCEPT ![k].stage = "saved",
                                        ![k].trace = Append(p.trace, "insert")]
         ELSE /\ posts' = [posts EXCEPT ![k] =
                   Answered(p.req, 500, TRUE, "Server error", "ValidationError",
                            <<>>, p.trace)]
              /\ UNCHANGED repo
  /\ UNCHANGED <<variant, store, clients, delivered, now, resp>>

\* Finish without io.emit
FinishWithoutEmit(k) ==
  /\ k \in 1..Len(posts)
  /\ posts[k].stage = "saved"
  /\ LET p == posts[k]
     IN  posts' = [posts EXCEPT ![k] =
           [Answered(p.req, 201, TRUE, "", "", p.doc, p.trace \o <<"emit", "respond">>)
              EXCEPT !.doc = p.doc]]
  /\ UNCHANGED <<variant, repo, store, clients, delivered, now, resp>>

\* after save(): io.emit('newReview', newBike), then res.status(201).json(newBike)
Finish(k) ==
  /\ k \in 1..Len(posts)
  /\ posts[k].stage = "saved"
  /\ LET p == posts[k]
     IN  /\ delivered' = Append(delivered,
                                [event |-> "newReview", doc |-> p.doc[1], to |-> clients])
         /\ posts' = [posts EXCEPT ![k] =
              [Answered(p.req, 201, TRUE, "", "", p.doc, p.trace \o <<"emit", "respond">>)
                 EXCEPT !.doc = p.doc]]
  /\ UNCHANGED <<variant, repo, store, clients, now, resp>>

(***************************************************************************)
(* socket.io connections.                                                  *)
(***************************************************************************)
Connect(c) ==
  /\ c \notin clients
  /\ clients' = clients \cup {c}
  /\ UNCHANGED <<variant, repo, store, delivered, posts, now, resp>>

Disconnect(c) ==
  /\ c \in clients
  /\ clients' = clients \ {c}
  /\ UNCHANGED <<variant, repo, store, delivered, posts, now, resp>>

(***************************************************************************)
(* The queries of the GET handlers.                                        *)
(***************************************************************************)
\* String.prototype.toLowerCase, one character
ToLower(c) ==
  IF \E i \in 1..Len(UpperCase) : UpperCase[i] = c
  THEN LowerCase[CHOOSE i \in 1..Len(UpperCase) : UpperCase[i] = c]
  ELSE c

\* the regular expressions the model draws are made of literal characters,
\* of "." (any character) and of "(", which no ")" closes
RegexCompiles(pattern) == \A i \in 1..Len(pattern) : pattern[i] # "("

\* { $regex: query, $options: 'i' }: the pattern matches somewhere in the text
RegexMatches(pattern, text) ==
  \E off \in 0..(Len(text) - Len(pattern)) :
    \A i \in 1..Len(pattern) :
      pattern[i] = "." \/ ToLower(pattern[i]) = ToLower(text[off + i])

\* $or: [{ bikeName: ... }, { modelName: ... }]
SearchFilter(doc, query) ==
  RegexMatches(query, doc.bikeName.s) \/ RegexMatches(query, doc.modelName.s)

\* .sort({ createdAt: 1 })
SortByCreatedAtAsc(docs) ==
  LET n == Len(docs)
      orders == {o \in [1..n -> 1..n] :
                   /\ \A i, j \in 1..n : i # j => o[i] # o[j]
                   /\ \A i, j \in 1..n : i < j => docs[o[i]].createdAt <= docs[o[j]].createdAt}
  IN  {[i \in 1..n |-> docs[o[i]]] : o \in orders}

\* .sort({ createdAt: -1 }): every order of docs with createdAt descending;
\* the order of documents of equal createdAt is not determined
SortByCreatedAtDesc(docs) ==
  LET n == Len(docs)
      orders == {o \in [1..n -> 1..n] :
                   /\ \A i, j \in 1..n : i # j => o[i] # o[j]
                   /\ \A i, j \in 1..n : i < j => docs[o[i]].createdAt >= docs[o[j]].createdAt}
  IN  {[i \in 1..n |-> docs[o[i]]] : o \in orders}

\* .limit(n)
Limit(docs, n) == SubSeq(docs, 1, IF Len(docs) < n THEN Len(docs) ELSE n)

IsHex(c) == IsDigit(c) \/ c \in {"a", "b", "c", "d", "e", "f", "A", "B", "C", "D", "E", "F"}

\* the cast of req.params.id to an ObjectId: 24 hexadecimal digits
CastsToObjectId(id) == Len(id) = ObjectIdHexLen /\ \A i \in 1..Len(id) : IsHex(id[i])

Response(op, arg, stat, message, body, read) ==
  [op |-> op, arg |-> arg, status |-> stat, message |-> message, body |-> body,
   read |-> read, seen |-> IF read THEN Len(repo) ELSE 0]

Queries == {Undefined, Str(<<>>), Str(<<"r", "o", "y", "a", "l">>),
            Str(<<"H", "I", "M", "A">>), Str(<<"R", ".", "y">>), Str(<<"(">>)}

Ids == {Str(ObjectId(k)) : k \in 1..(MaxPosts + 1)} \cup {Str(<<"a", "b", "c">>)}

\* GET /api/bikes
List ==
  /\ \E body \in SortByCreatedAtDesc(repo) :
       resp' = Response("list", Undefined, 200, "", body, TRUE)
  /\ UNCHANGED <<variant, repo, store, clients, delivered, posts, now>>

\* GET /api/bikes/search?query=...: a pattern MongoDB cannot compile makes
\* find() throw, and the catch answers 500
Search(query) ==
  /\ IF Falsy(query)
     THEN resp' = Response("search", query, 400, "Search query is required", <<>>, FALSE)
     ELSE IF ~RegexCompiles(query.s)
     THEN resp' = Response("search", query, 500, "Server error", <<>>, TRUE)
     ELSE \E found \in SortByCreatedAtDesc(SelectSeq(repo, LAMBDA d : SearchFilter(d, query.s))) :
            resp' = Response("search", query, 200, "", Limit(found, SearchLimit), TRUE)
  /\ UNCHANGED <<variant, repo, store, clients, delivered, posts, now>>

\* GET /api/bikes/:id: an id that does not cast to an ObjectId makes findById
\* throw a CastError, and the catch answers 500
GetById(id) ==
  /\ IF ~CastsToObjectId(id.s)
     THEN resp' = Response("get", id, 500, "Server error", <<>>, FALSE)
     ELSE LET found == SelectSeq(repo, LAMBDA d : d.id = id.s)
          IN  IF found = <<>>
              THEN resp' = Response("get", id, 404, "Bike review not found", <<>>, TRUE)
              ELSE resp' = Response("get", id, 200, "", <<found[1]>>, TRUE)
  /\ UNCHANGED <<variant, repo, store, clients, delivered, posts, now>>

NextAdd ==
  \/ \E req \in Requests : Receive(req)
  \/ \E k \in 1..MaxPosts, i \in 1..MaxCount : Normalize(k, i)
  \/ \E k \in 1..MaxPosts : SaveDone(k)
  \/ \E k \in 1..MaxPosts : Finish(k)
  \/ \E c \in Clients : Connect(c)
  \/ \E c \in Clients : Disconnect(c)

SpecAdd == Init /\ [][NextAdd]_vars

\* The submissions that fill the collection the GET handlers read: the
\* scenario, one of another bike, one whose purchaseYear is empty, and one
\* that is refused.
ReadRequests ==
  {Scenario, [Scenario EXCEPT !.bikeName = Str(Yamaha)],
   [Scenario EXCEPT !.purchaseYear = Str(<<>>)],
   [Scenario EXCEPT !.riderName = Undefined]}

NextRead ==
  \/ \E req \in ReadRequests : Receive(req)
  \/ \E k \in 1..MaxPosts : SaveDone(k)
  \/ \E k \in 1..MaxPosts : Finish(k)
  \/ List
  \/ \E query \in Queries : Search(query)
  \/ \E id \in Ids : GetById(id)

InitRead == Init /\ variant = "remote"

SpecRead == InitRead /\ [][NextRead]_vars

\* The four routes together, in either variant: the submissions of
\* ReadRequests and one whose second image cannot be decoded.
ServiceRequests ==
  ReadRequests \cup {[Scenario EXCEPT !.bikeImages = Files(OneOdd(Corrupt, 2))]}

NextService ==
  \/ \E req \in ServiceRequests : Receive(req)
  \/ \E k \in 1..MaxPosts, i \in 1..MaxCount : Normalize(k, i)
  \/ \E k \in 1..MaxPosts : SaveDone(k)
  \/ \E k \in 1..MaxPosts : Finish(k)
  \/ List
  \/ \E query \in Queries : Search(query)
  \/ \E id \in Ids : GetById(id)

SpecService == Init /\ [][NextService]_vars

Next == NextAdd \/ NextRead

Spec == Init /\ [][Next]_vars

(***************************************************************************)
(* What the properties below speak of.                                     *)
(***************************************************************************)
PostIds == 1..Len(posts)
FilesOf(k) == posts[k].req.bikeImages.list
\* the Review of the k-th request is in the collection
Persisted(k) == \E j \in 1..Len(repo) : repo[j].id = ObjectId(k)
\* the newReview events sent for the k-th request
EventsOf(k) == {j \in 1..Len(delivered) : delivered[j].doc.id = ObjectId(k)}
\* the text fields of a request are those of a valid submission
NonEmpty(v) == v.t = "string" /\ v.s # <<>>
IsNumber(v) == v.t = "string" /\ ~StringToNumber(v.s).nan
TextFieldsValid(req) ==
  /\ NonEmpty(req.riderName) /\ NonEmpty(req.bikeName) /\ NonEmpty(req.modelName)
  /\ NonEmpty(req.review) /\ NonEmpty(req.purchaseYear) /\ NonEmpty(req.bikeCost)
  /\ IsNumber(req.purchaseYear) /\ IsNumber(req.bikeCost)
  /\ IsNumber(req.totalKM) /\ IsNumber(req.costPerService)
  /\ NonEmpty(req.rating) /\ IsNumber(req.rating)
  /\ StringToNumber(req.rating.s).n \in 1..5
  /\ req.worthTheCost \in {Undefined, Str(Yes), Str(DefinitelyYes), Str(No)}

(***************************************************************************)
(* C1.  Every persisted Review has at least 3 and at most 5 images, and    *)
(* the record a successful submission returns and persists lists one       *)
(* image per file supplied, the i-th image being that of the i-th file.    *)
(***************************************************************************)
C1_ImagesOfPersistedReviews ==
  /\ \A j \in 1..Len(repo) : Len(repo[j].images) >= 3 /\ Len(repo[j].images) <= 5
  /\ \A k \in PostIds :
       posts[k].status = 201 =>
         /\ Len(posts[k].body[1].images) = Len(FilesOf(k))
         /\ \A i \in 1..Len(FilesOf(k)) :
              /\ posts[k].body[1].images[i].post = k
              /\ posts[k].body[1].images[i].idx = i
         /\ \E j \in 1..Len(repo) : repo[j] = posts[k].body[1]

\* a submission of 5 images has succeeded after another request has failed
C1_Witness ==
  \E k, f \in PostIds :
    /\ posts[k].status = 201 /\ Len(FilesOf(k)) = 5 /\ Persisted(k)
    /\ posts[f].status >= 400

(***************************************************************************)
(* C2.  A request with 0, 1 or 2 image files and every other field valid   *)
(* is answered 400, no Review of it is persisted and no newReview event is *)
(* emitted for it.                                                         *)
(***************************************************************************)
C2_TooFewImagesRefused ==
  \A k \in PostIds :
    (Len(FilesOf(k)) < 3 /\ TextFieldsValid(posts[k].req)) =>
      /\ posts[k].status = 400
      /\ ~Persisted(k)
      /\ EventsOf(k) = {}

\* a request with 2 images was answered 400 while a Review was persisted
C2_Witness ==
  \E k \in PostIds :
    /\ Len(FilesOf(k)) = 2 /\ TextFieldsValid(posts[k].req)
    /\ posts[k].status = 400
    /\ posts[k].message = "At least 3 images are required"

(***************************************************************************)
(* C3.  A request with 6 or more image files, or with a file whose         *)
(* declared content type is not jpeg, png or gif, or with a file larger    *)
(* than 5 MiB, is answered 400 with a message field, and no Review of it   *)
(* is persisted.                                                           *)
(***************************************************************************)
C3_BadUploadIsValidationError ==
  \A k \in PostIds :
    (\/ Len(FilesOf(k)) >= 6
     \/ \E i \in 1..Len(FilesOf(k)) :
          \/ FilesOf(k)[i].mimetype \notin {"image/jpeg", "image/png", "image/gif"}
          \/ FilesOf(k)[i].size > 5 * 1024 * 1024) =>
      /\ posts[k].status = 400
      /\ posts[k].json /\ posts[k].message # ""
      /\ ~Persisted(k)

(***************************************************************************)
(* C4.  A request in which riderName, bikeName, modelName, purchaseYear,   *)
(* bikeCost, review or rating is missing or empty is answered 400, no      *)
(* Review of it is persisted and no newReview event is emitted for it.     *)
(***************************************************************************)
RequiredFields ==
  {"riderName", "bikeName", "modelName", "purchaseYear", "bikeCost", "review", "rating"}

C4_MissingFieldIsValidationError ==
  \A k \in PostIds :
    (\E f \in RequiredFields : ~NonEmpty(posts[k].req[f])) =>
      /\ posts[k].status \in {0, 400}
      /\ ~Persisted(k)
      /\ EventsOf(k) = {}

(***************************************************************************)
(* C5.  A rating that is a number outside [1,5] gets the request answered  *)
(* 400 once multer has let it through, and never a Review persisted; a     *)
(* rating inside [1,5] passes the handler's test of the rating; and every  *)
(* persisted Review has a rating in [1,5].                                 *)
(***************************************************************************)
RatingNumber(k) == StringToNumber(posts[k].req.rating.s)
HasRatingNumber(k) == posts[k].req.rating.t = "string" /\ ~RatingNumber(k).nan

C5_RatingInRange ==
  /\ \A k \in PostIds :
       (HasRatingNumber(k) /\ (RatingNumber(k).n < 1 \/ RatingNumber(k).n > 5)) =>
         /\ ~Persisted(k)
         /\ posts[k].status # 201
         /\ posts[k].trace # <<>> => posts[k].status = 400
  /\ \A k \in PostIds :
       (/\ HasRatingNumber(k) /\ RatingNumber(k).n >= 1 /\ RatingNumber(k).n <= 5
        /\ posts[k].req.rating.s # <<>>
        /\ NonEmpty(posts[k].req.riderName) /\ NonEmpty(posts[k].req.bikeName)
        /\ NonEmpty(posts[k].req.modelName) /\ NonEmpty(posts[k].req.review)) =>
         posts[k].message # "All required fields must be provided"
  /\ \A j \in 1..Len(repo) :
       ~repo[j].rating.nan /\ repo[j].rating.n >= 1 /\ repo[j].rating.n <= 5

\* ratings 6 and 0 were each answered 400
C5_Witness ==
  \E k, l \in PostIds :
    /\ posts[k].req.rating = Str(<<"6">>) /\ posts[k].status = 400
    /\ posts[l].req.rating = Str(<<"0">>) /\ posts[l].status = 400

(***************************************************************************)
(* C6.  A submission stores and normalizes all its images, then inserts    *)
(* the Review, then emits exactly one newReview event carrying the created *)
(* record to the clients connected at that moment, then answers 201.  No   *)
(* event is emitted for a submission that was not inserted, and no 201 is  *)
(* sent without the insert and the broadcast before it.                    *)
(***************************************************************************)
IsPrefix(s, t) == Len(s) <= Len(t) /\ SubSeq(t, 1, Len(s)) = s
StepsInOrder ==
  IF variant = "local" THEN <<"upload", "normalized", "insert", "emit", "respond">>
  ELSE <<"upload", "insert", "emit", "respond">>
Did(k, step) == \E n \in 1..Len(posts[k].trace) : posts[k].trace[n] = step

C6_State ==
  \A k \in PostIds :
    /\ IsPrefix(posts[k].trace, StepsInOrder)
    /\ Persisted(k) <=> Did(k, "insert")
    /\ Cardinality(EventsOf(k)) = IF Did(k, "emit") THEN 1 ELSE 0
    /\ posts[k].status = 201 <=> Did(k, "respond")
    /\ \A j \in EventsOf(k) :
         /\ delivered[j].event = "newReview"
         /\ \E n \in 1..Len(repo) : repo[n] = delivered[j].doc
    /\ posts[k].status = 201 =>
         /\ Persisted(k) /\ EventsOf(k) # {}
         /\ \A j \in EventsOf(k) : delivered[j].doc = posts[k].body[1]
    /\ \A n \in 1..Len(repo) :
         repo[n].id = ObjectId(k) =>
           /\ Len(repo[n].images) = Len(FilesOf(k))
           /\ \A i \in 1..Len(repo[n].images) : repo[n].images[i] \in store
           /\ \A f \in store : f.post = k => \E i \in 1..Len(repo[n].images) : repo[n].images[i] = f

C6_Step ==
  /\ Len(repo') > Len(repo) =>
       \A k \in PostIds :
         repo'[Len(repo')].id = ObjectId(k) =>
           /\ EventsOf(k) = {} /\ posts[k].status = 0
           /\ \A i \in 1..Len(repo'[Len(repo')].images) : repo'[Len(repo')].images[i] \in store
  /\ Len(delivered') > Len(delivered) =>
       /\ Len(delivered') = Len(delivered) + 1
       /\ delivered'[Len(delivered')].to = clients
       /\ \E n \in 1..Len(repo) : repo[n] = delivered'[Len(delivered')].doc
  /\ \A k \in PostIds :
       (posts[k].status # 201 /\ posts'[k].status = 201) =>
         /\ Persisted(k)
         /\ \E j \in 1..Len(delivered') : delivered'[j].doc.id = ObjectId(k)

C6_SubmitOrder == []C6_State /\ [][C6_Step]_vars

\* a submission of the local variant was answered 201 after its event reached
\* a connected client
C6_Witness ==
  \E k \in PostIds :
    /\ variant = "local" /\ posts[k].status = 201
    /\ posts[k].trace = <<"upload", "normalized", "insert", "emit", "respond">>
    /\ \E j \in EventsOf(k) : delivered[j].to # {}

(***************************************************************************)
(* C7.  GET /api/bikes/search answers 400 without reading the collection   *)
(* when query is absent or empty; for any other query q it answers with    *)
(* exactly the (at most 10) newest Reviews whose bikeName or modelName     *)
(* contains q as a case-insensitive substring, newest first.               *)
(***************************************************************************)
Contains(text, q) ==
  \E off \in 0..(Len(text) - Len(q)) :
    \A i \in 1..Len(q) : ToLower(q[i]) = ToLower(text[off + i])

C7_SearchIsSubstringMatch ==
  resp.op = "search" =>
    IF ~NonEmpty(resp.arg)
    THEN resp.status = 400 /\ ~resp.read
    ELSE /\ resp.status = 200
         /\ \E found \in SortByCreatedAtDesc(
                SelectSeq(SubSeq(repo, 1, resp.seen),
                          LAMBDA d : Contains(d.bikeName.s, resp.arg.s)
                                     \/ Contains(d.modelName.s, resp.arg.s))) :
              resp.body = SubSeq(found, 1, IF Len(found) < 10 THEN Len(found) ELSE 10)

(***************************************************************************)
(* C8.  GET /api/bikes/:id answers 404 for every identifier that matches   *)
(* no persisted Review, whatever its form, and 200 with exactly the record *)
(* for the identifier of a persisted Review, the same record, field for    *)
(* field, as the submit that created it returned.                          *)
(***************************************************************************)
C8_GetByIdFindsOr404 ==
  resp.op = "get" =>
    LET known == IF resp.read THEN resp.seen ELSE Len(repo)
        match == {n \in 1..known : repo[n].id = resp.arg.s}
    IN  IF match = {}
        THEN resp.status = 404
        ELSE /\ resp.status = 200
             /\ \E n \in match : resp.body = <<repo[n]>>
             /\ \A k \in PostIds :
                  (posts[k].status = 201 /\ posts[k].body[1].id = resp.arg.s) =>
                    resp.body = posts[k].body

(***************************************************************************)
(* C9.  createdAt never decreases along the insertion order of the         *)
(* collection, whatever the interleaving of concurrent submissions, so     *)
(* GET /api/bikes lists the Reviews in reverse insertion order.            *)
(***************************************************************************)
Reverse(q) == [i \in 1..Len(q) |-> q[Len(q) + 1 - i]]

C9_CreatedAtFollowsInsertion ==
  /\ \A i, j \in 1..Len(repo) : i < j => repo[i].createdAt <= repo[j].createdAt
  /\ resp.op = "list" => resp.body = Reverse(SubSeq(repo, 1, resp.seen))

(***************************************************************************)
(* C9, amended.  createdAt is the reading of the clock when the handler    *)
(* constructs the record, before it calls save(): a Review never carries   *)
(* a createdAt earlier than that of a Review already inserted when it was  *)
(* constructed, while the inserts of concurrent submissions may complete   *)
(* in either order.  GET /api/bikes lists every Review of the collection   *)
(* by createdAt descending.                                                *)
(***************************************************************************)
C9_State ==
  /\ \A n \in 1..Len(repo) :
       \E k \in PostIds : posts[k].doc = <<repo[n]>>
  /\ resp.op = "list" =>
       /\ resp.status = 200
       /\ Len(resp.body) = resp.seen
       /\ \A n \in 1..resp.seen : \E i \in 1..Len(resp.body) : resp.body[i] = repo[n]
       /\ \A i, j \in 1..Len(resp.body) :
            i < j => resp.body[i].createdAt >= resp.body[j].createdAt

C9_Step ==
  \A k \in 1..Len(posts') :
    (posts'[k].doc # <<>> /\ (k > Len(posts) \/ posts[k].doc = <<>>)) =>
      \A n \in 1..Len(repo) : repo[n].createdAt <= posts'[k].doc[1].createdAt

C9_ListByCreatedAt == []C9_State /\ [][C9_Step]_vars

\* two Reviews inserted against the order of their createdAt, and listed
C9_Witness ==
  /\ Len(repo) = 2 /\ repo[1].createdAt > repo[2].createdAt
  /\ resp.op = "list" /\ resp.body = <<repo[1], repo[2]>>

(***************************************************************************)
(* C10.  Local variant: when the normalization of one image of a           *)
(* submission fails the request is answered 500, no Review of it is        *)
(* inserted and no newReview event is emitted; every image of it stays in  *)
(* the image store, as the uploaded original or as the compressed file     *)
(* made of it, and no record refers to any of them.                        *)
(***************************************************************************)
C10_NormalizationFailure ==
  \A k \in PostIds :
    (/\ variant = "local"
     /\ posts[k].trace # <<>> /\ posts[k].status # 400
     /\ \E i \in 1..Len(FilesOf(k)) : ~FilesOf(k)[i].decodable /\ i \notin posts[k].pending) =>
      LET folder == FolderName(posts[k].req.bikeName, posts[k].req.modelName)
      IN  /\ posts[k].status = 500 /\ posts[k].message = "Server error"
          /\ ~Persisted(k)
          /\ EventsOf(k) = {}
          /\ \A i \in 1..Len(FilesOf(k)) :
               IF i \notin posts[k].pending /\ FilesOf(k)[i].decodable
               THEN Compressed(folder, k, i) \in store /\ Original(folder, k, i) \notin store
               ELSE Original(folder, k, i) \in store /\ Compressed(folder, k, i) \notin store
          /\ \A n \in 1..Len(repo) :
               \A i \in 1..Len(repo[n].images) : repo[n].images[i].post # k

\* the second image failed after the first was compressed and before the third
C10_Witness ==
  \E k \in PostIds :
    LET folder == FolderName(posts[k].req.bikeName, posts[k].req.modelName)
    IN  /\ variant = "local" /\ posts[k].status = 500
        /\ ~FilesOf(k)[2].decodable
        /\ posts[k].pending = {3}
        /\ Compressed(folder, k, 1) \in store
        /\ Original(folder, k, 2) \in store
        /\ Original(folder, k, 3) \in store

(***************************************************************************)
(* C11.  Reviews are immutable and never deleted.  Over list, search,      *)
(* getById and submit requests in any order: a Review that is persisted    *)
(* stays persisted with every field, images and createdAt included, as it  *)
(* was; a list, search or getById request changes neither the collection,  *)
(* nor the image store, nor what was sent on the notification channel; a   *)
(* submit request adds at most one record, its own, and adds it once.      *)
(***************************************************************************)
\* the request whose handler took the step
Stepped(k) == k > Len(posts) \/ posts'[k] # posts[k]

C11_State ==
  /\ \A j \in 1..Len(repo) :
       \E k \in PostIds : repo[j].id = ObjectId(k) /\ posts[k].doc = <<repo[j]>>
  /\ \A k \in PostIds : Cardinality({j \in 1..Len(repo) : repo[j].id = ObjectId(k)}) <= 1

C11_Step ==
  /\ \A j \in 1..Len(repo) : \E n \in 1..Len(repo') : repo'[n] = repo[j]
  /\ Len(repo') <= Len(repo) + 1
  /\ resp' # resp => repo' = repo /\ store' = store /\ delivered' = delivered
  /\ \A n \in 1..Len(repo') :
       (\A j \in 1..Len(repo) : repo[j] # repo'[n]) =>
         \E k \in 1..Len(posts') :
           /\ Stepped(k) /\ \A m \in 1..Len(posts') : Stepped(m) => m = k
           /\ repo'[n].id = ObjectId(k)
           /\ ~Persisted(k)

C11_ReviewsImmutable == []C11_State /\ [][C11_Step]_vars

\* in the local variant a Review was persisted, a getById then found it, and
\* a second submission added its own Review after that
C11_Witness ==
  /\ variant = "local"
  /\ Len(repo) = 2
  /\ repo[1].bikeName = repo[2].bikeName /\ repo[1].modelName = repo[2].modelName
  /\ resp.op = "get" /\ resp.status = 200 /\ resp.seen = 1
  /\ resp.body = <<repo[1]>>
  /\ Len(delivered) = 2

=============================================================================
